---- MODULE Spec2Model ----
(***************************************************************************)
(* Model of msticpy/datamodel/pivot_register.py: the pivot registry        *)
(* (register_provider), the batch adapter (_iterate_prov_query), the       *)
(* scalar normaliser (_value_to_df) and the entity resolver                *)
(* (_entity_class).                                                        *)
(*                                                                         *)
(* Every module-level function is an operation a client can call; the      *)
(* state records the last call (op), what it returned or raised (outcome), *)
(* the calls it made to the query provider (calls), the callable that the  *)
(* last register_provider built in its local qry_func (built), and the     *)
(* attributes this module has set on the entity classes (attached).        *)
(***************************************************************************)
EXTENDS Integers, Sequences, FiniteSets, TLC

VARIABLES op, outcome, calls, built, attached

vars == <<op, outcome, calls, built, attached>>

(***************************************************************************)
(* Bounds                                                                  *)
(***************************************************************************)
MaxLen == 3        \* longest list of identifying values
MaxBindings == 2   \* most entries in PivotRegistration.qry_entities

(***************************************************************************)
(* Python values.  A str is its sequence of characters, an int or a float  *)
(* its digits; a list holds scalar items.                                  *)
(***************************************************************************)
PyStr(cs) == [type |-> "str", chars |-> cs, items |-> <<>>]

PyInt(cs) == [type |-> "int", chars |-> cs, items |-> <<>>]

PyFloat(cs) == [type |-> "float", chars |-> cs, items |-> <<>>]

PyList(xs) == [type |-> "list", chars |-> <<>>, items |-> xs]

NoVal == [type |-> "none", chars |-> <<>>, items |-> <<>>]

Chars == {"a", "b"}

ItemVals == {PyStr(<<c>>) : c \in Chars}

Scalars ==
    ItemVals \cup {PyStr(<<>>), PyStr(<<"a", "b">>), PyInt(<<"7">>),
                   PyFloat(<<"2", ".", "5">>)}

SeqsUpTo(S, n) == UNION {[1..k -> S] : k \in 0..n}

Lists == {PyList(xs) : xs \in SeqsUpTo(ItemVals, MaxLen)}

QryValues == Scalars \cup Lists

Options == {{}, {"days"}}

\* the values a provider raises on
FailSets == {{}, {PyStr(<<"a">>)}, {PyStr(<<"b">>)}}

(***************************************************************************)
(* The query providers are external callables (value_or_values, **kwargs)  *)
(* -> table.  A provider answers one row per identifying value and raises  *)
(* on the values in failOn.                                                *)
(***************************************************************************)
Provs == {"p1", "p2"}

Row(f, v) == [prov |-> f, val |-> v]

Call(f, arg, opts) == [func |-> f, arg |-> arg, opts |-> opts]

Raise(exc, arg, errval, mssg, fuzzy) ==
    [kind |-> "raise", exc |-> exc, arg |-> arg, errval |-> errval,
     mssg |-> mssg, value |-> "None", table |-> <<>>, fuzzy |-> fuzzy]

NoMssg == [shape |-> "none", names |-> <<>>]

ReturnTable(t) ==
    [kind |-> "return", exc |-> "", arg |-> "", errval |-> NoVal,
     mssg |-> NoMssg, value |-> "None", table |-> t, fuzzy |-> FALSE]

ReturnValue(v) ==
    [kind |-> "return", exc |-> "", arg |-> "", errval |-> NoVal,
     mssg |-> NoMssg, value |-> v, table |-> <<>>, fuzzy |-> FALSE]

Result(out, cs) == [outcome |-> out, calls |-> cs]

Fails(arg, failOn) ==
    IF arg.type = "list"
    THEN \E i \in 1..Len(arg.items) : arg.items[i] \in failOn
    ELSE arg \in failOn

ProviderTable(f, arg) ==
    IF arg.type = "list"
    THEN [i \in 1..Len(arg.items) |-> Row(f, arg.items[i])]
    ELSE <<Row(f, arg)>>

ProviderCall(f, arg, opts, failOn) ==
    IF Fails(arg, failOn)
    THEN Result(Raise("ProviderError", "", arg, NoMssg, FALSE), <<Call(f, arg, opts)>>)
    ELSE Result(ReturnTable(ProviderTable(f, arg)), <<Call(f, arg, opts)>>)

(***************************************************************************)
(* Python iteration: a list yields its items, a str its characters (each a *)
(* one-character str); an int or a float is not iterable.                  *)
(***************************************************************************)
Iterable(v) == v.type \in {"list", "str"}

Iter(v) ==
    IF v.type = "list" THEN v.items
    ELSE [i \in 1..Len(v.chars) |-> PyStr(<<v.chars[i]>>)]

RECURSIVE Flatten(_)
Flatten(ts) == IF ts = <<>> THEN <<>> ELSE Head(ts) \o Flatten(Tail(ts))

\* pd.concat(objs): row-wise concatenation; an empty list of tables raises.
Concat(ts) ==
    IF ts = <<>>
    THEN Raise("ValueError", "No objects to concatenate", NoVal, NoMssg, FALSE)
    ELSE ReturnTable(Flatten(ts))

FirstFail(items, failOn) ==
    IF \E i \in 1..Len(items) : items[i] \in failOn
    THEN CHOOSE i \in 1..Len(items) :
            /\ items[i] \in failOn
            /\ \A j \in 1..(i - 1) : items[j] \notin failOn
    ELSE 0

\* A batch adapter that swallows a provider error: the failing value is
\* skipped, the later values are still queried and a partial table returned.
IterateProvQuery_swallow(qry_func, qry_values, opts, failOn) ==
    IF ~Iterable(qry_values)
    THEN Result(Raise("TypeError", "object is not iterable", NoVal, NoMssg, FALSE), <<>>)
    ELSE LET items == Iter(qry_values)
             ok == SelectSeq(items, LAMBDA x : x \notin failOn)
         IN  Result(Concat([i \in 1..Len(ok) |-> ProviderTable(qry_func, ok[i])]),
                    [i \in 1..Len(items) |-> Call(qry_func, items[i], opts)])

\* The body of _iterate_prov_query: a list comprehension calling qry_func
\* on every value in turn, then pd.concat of the tables.
IterateProvQuery(qry_func, qry_values, opts, failOn) ==
    IF ~Iterable(qry_values)
    THEN Result(Raise("TypeError", "object is not iterable", NoVal, NoMssg, FALSE), <<>>)
    ELSE LET items == Iter(qry_values)
             k == FirstFail(items, failOn)
         IN  IF k > 0
             THEN Result(Raise("ProviderError", "", items[k], NoMssg, FALSE),
                         [i \in 1..k |-> Call(qry_func, items[i], opts)])
             ELSE Result(Concat([i \in 1..Len(items) |-> ProviderTable(qry_func, items[i])]),
                         [i \in 1..Len(items) |-> Call(qry_func, items[i], opts)])

(***************************************************************************)
(* Argument binding of a call to                                           *)
(*   _iterate_prov_query(qry_func, qry_values, **kwargs)                   *)
(* with npos positional arguments and the keyword names kwnames.           *)
(***************************************************************************)
Params == <<"qry_func", "qry_values">>

Bind(npos, kwnames) ==
    IF \E i \in 1..npos : Params[i] \in kwnames THEN "multiple values"
    ELSE IF \E i \in (npos + 1)..Len(Params) : Params[i] \notin kwnames THEN "missing"
    ELSE "ok"

\* partial(_iterate_prov_query, qry_func=f) called as adapter(values, **opts)
\* (style "positional") or adapter(qry_values=values, **opts) ("keyword").
CallPartial(f, style, qry_values, opts, failOn) ==
    LET npos == IF style = "positional" THEN 1 ELSE 0
        kwnames == {"qry_func"} \cup opts
                     \cup (IF style = "keyword" THEN {"qry_values"} ELSE {})
        b == Bind(npos, kwnames)
    IN  IF b = "ok"
        THEN IterateProvQuery(f, qry_values, opts, failOn)
        ELSE Result(Raise("TypeError", b, NoVal, NoMssg, FALSE), <<>>)

(***************************************************************************)
(* The entity vocabulary: the attributes of the entityschema module.       *)
(* Each legal name is bound to its entity class; a class is truthy.        *)
(***************************************************************************)
DirEntities == {"Account", "Host", "HostLogonSession", "IpAddress"}

\* dir(entities): the attribute names, sorted
LegalEntities == <<"Account", "Host", "HostLogonSession", "IpAddress">>

EntitiesModule == [n \in DirEntities |-> n]

\* the names a caller asks for: the legal ones, a wrong case, near misses
EntityNames == DirEntities \cup {"Bogus", "host", "HostLogon"}

Truthy(v) == v /= "None"

\* difflib.get_close_matches(entity_name, legal_entities) (n=3, cutoff=0.6),
\* tabulated for EntityNames against LegalEntities.
CloseMatches(entity_name) ==
    CASE entity_name = "Bogus" -> <<>>
      [] entity_name = "host" -> <<"Host">>
      [] entity_name = "HostLogon" -> <<"HostLogonSession", "Host">>
      [] OTHER -> <<entity_name>>

\* The message of lines 65-72, by shape and the names it lists.
Mssg(closest, legal_entities) ==
    IF Len(closest) = 1
    THEN [shape |-> "closest_match", names |-> <<closest[1]>>]
    ELSE IF closest /= <<>>
    THEN [shape |-> "closest_matches", names |-> closest]
    ELSE [shape |-> "valid_arguments", names |-> legal_entities]

\* A resolver whose truthiness test is inverted ("if not ent_cls").
EntityClass_inverted(entity_name) ==
    IF entity_name \notin DOMAIN EntitiesModule
    THEN Raise("AttributeError", entity_name, NoVal, NoMssg, FALSE)
    ELSE LET ent_cls == EntitiesModule[entity_name]
         IN  IF ~Truthy(ent_cls)
             THEN ReturnValue(ent_cls)
             ELSE Raise("NameError", entity_name, NoVal,
                        Mssg(CloseMatches(entity_name), LegalEntities), TRUE)

\* _entity_class(entity_name).  getattr without a default raises
\* AttributeError for a name the module does not have.
EntityClass(entity_name) ==
    IF entity_name \notin DOMAIN EntitiesModule
    THEN Raise("AttributeError", entity_name, NoVal, NoMssg, FALSE)
    ELSE LET ent_cls == EntitiesModule[entity_name]
         IN  IF Truthy(ent_cls)
             THEN ReturnValue(ent_cls)
             ELSE Raise("NameError", entity_name, NoVal,
                        Mssg(CloseMatches(entity_name), LegalEntities), TRUE)

(***************************************************************************)
(* PivotRegistration and register_provider                                 *)
(***************************************************************************)
QryNames == {"whois", "geoloc"}

\* a value of qry_entities: a keyword name, or a dict of fixed kwargs
Bindings == {[kind |-> "kwarg", name |-> "ip"], [kind |-> "fixed", name |-> "preset"]}

\* the keys of qry_entities
BoundNames == {"Host", "IpAddress", "Bogus"}

QryEntities ==
    {s \in SeqsUpTo([entity : BoundNames, binding : Bindings], MaxBindings) :
        \A i, j \in 1..Len(s) : i /= j => s[i].entity /= s[j].entity}

PivotRegistration ==
    [qry_name : QryNames, qry_func : Provs, qry_entities : QryEntities,
     multi_query_supported : BOOLEAN]

Unbound == [kind |-> "unbound", func |-> ""]

\* The value of the local qry_func when the loop of lines 39-42 ends.
LoopQryFunc(prov) ==
    IF prov.qry_entities = <<>> THEN Unbound
    ELSE IF ~prov.multi_query_supported
    THEN [kind |-> "partial", func |-> prov.qry_func]
    ELSE [kind |-> "raw", func |-> prov.qry_func]

\* register_provider(prov): the loop only rebinds qry_func; the resolver is
\* called once, after the loop, on the last key; set_attr is not defined
\* anywhere, so the call on line 44 raises NameError.
RegisterProvider(prov) ==
    LET n == Len(prov.qry_entities)
    IN  IF n = 0
        THEN Raise("UnboundLocalError", "entity", NoVal, NoMssg, FALSE)
        ELSE LET tgt_entity == EntityClass(prov.qry_entities[n].entity)
             IN  IF tgt_entity.kind = "raise"
                 THEN tgt_entity
                 ELSE Raise("NameError", "set_attr", NoVal, NoMssg, FALSE)

(***************************************************************************)
(* _value_to_df                                                            *)
(***************************************************************************)
Normalize(qry_val) ==
    IF qry_val.type \in {"str", "int", "float"} THEN PyList(<<qry_val>>) ELSE qry_val

\* pd.DataFrame(data, columns=...): columns must be list-like; a bare str
\* is rejected with TypeError.
DataFrame(data, columns) ==
    IF columns.type /= "list"
    THEN Raise("TypeError", "Index(...) must be called with a collection", NoVal, NoMssg, FALSE)
    ELSE ReturnTable([i \in 1..Len(data.items) |-> Row("", data.items[i])])

ValueToDf(qry_val) == DataFrame(Normalize(qry_val), PyStr(<<"qry_value">>))

(***************************************************************************)
(* State machine                                                           *)
(***************************************************************************)
Pairs == DirEntities \X QryNames

NoAttr == [kind |-> "none", func |-> "", binding |-> [kind |-> "none", name |-> ""]]

NoProv ==
    [qry_name |-> "", qry_func |-> "", qry_entities |-> <<>>,
     multi_query_supported |-> TRUE]

Op(fn, prov, name, func, style, values, opts, failOn) ==
    [fn |-> fn, prov |-> prov, name |-> name, func |-> func, style |-> style,
     values |-> values, opts |-> opts, failOn |-> failOn]

NoOp == Op("", NoProv, "", "", "", NoVal, {}, {})

Init ==
    /\ op = NoOp
    /\ outcome = ReturnValue("None")
    /\ calls = <<>>
    /\ built = Unbound
    /\ attached = [p \in Pairs |-> NoAttr]

\* a client calls register_provider(prov)
Register ==
    \E prov \in PivotRegistration :
        /\ op' = Op("register_provider", prov, "", "", "", NoVal, {}, {})
        /\ outcome' = RegisterProvider(prov)
        /\ built' = LoopQryFunc(prov)
        /\ calls' = <<>>
        /\ UNCHANGED attached

\* a client calls _entity_class(entity_name)
Resolve ==
    \E entity_name \in EntityNames :
        /\ op' = Op("_entity_class", NoProv, entity_name, "", "", NoVal, {}, {})
        /\ outcome' = EntityClass(entity_name)
        /\ calls' = <<>>
        /\ UNCHANGED <<built, attached>>

\* a client calls _iterate_prov_query(qry_func, qry_values, **opts)
Iterate ==
    \E f \in Provs, v \in QryValues, opts \in Options, failOn \in FailSets :
        LET r == IterateProvQuery(f, v, opts, failOn)
        IN  /\ op' = Op("_iterate_prov_query", NoProv, "", f, "direct", v, opts, failOn)
            /\ outcome' = r.outcome
            /\ calls' = r.calls
            /\ UNCHANGED <<built, attached>>

\* the callable that the last register_provider built is invoked the way an
\* access point is, callable(values, **opts), or with the values by keyword,
\* callable(qry_values=values, **opts)
Invoke ==
    \E style \in {"positional", "keyword"}, v \in QryValues, opts \in Options,
       failOn \in FailSets :
        /\ built.kind /= "unbound"
        /\ style = "keyword" => built.kind = "partial"
        /\ LET r == IF built.kind = "partial"
                    THEN CallPartial(built.func, style, v, opts, failOn)
                    ELSE ProviderCall(built.func, v, opts, failOn)
           IN  /\ op' = Op("invoke", NoProv, built.kind, built.func, style, v, opts, failOn)
               /\ outcome' = r.outcome
               /\ calls' = r.calls
        /\ UNCHANGED <<built, attached>>

\* a client calls _value_to_df(qry_val)
ToDf ==
    \E v \in QryValues :
        /\ op' = Op("_value_to_df", NoProv, "", "", "", v, {}, {})
        /\ outcome' = ValueToDf(v)
        /\ calls' = <<>>
        /\ UNCHANGED <<built, attached>>

Next == Register \/ Resolve \/ Iterate \/ Invoke \/ ToDf

Spec == Init /\ [][Next]_vars

TypeOK == outcome.kind \in {"return", "raise"}

(***************************************************************************)
(* Properties                                                              *)
(***************************************************************************)
Registered == op.fn = "register_provider"

\* the bindings of the last registration whose entity name is legal
LegalBindings == {i \in 1..Len(op.prov.qry_entities) : op.prov.qry_entities[i].entity \in DirEntities}

\* the bindings of the last registration whose entity name is not legal
BadBindings == {i \in 1..Len(op.prov.qry_entities) : op.prov.qry_entities[i].entity \notin DirEntities}

AttachedFor(i) == attached[<<op.prov.qry_entities[i].entity, op.prov.qry_name>>]

\* the values the batch adapter walks over in the last call
Items == IF Iterable(op.values) THEN Iter(op.values) ELSE <<>>

AdapterCall ==
    \/ op.fn = "_iterate_prov_query"
    \/ op.fn = "invoke" /\ op.name = "partial"

\* C1: a registration that has a bad entity name among its bindings, first
\* or last, still completes, and every binding with a legal entity name is
\* attached to its entity type under the registration's name.
C1_PerBindingIsolation ==
    (Registered /\ LegalBindings /= {} /\ BadBindings /= {}) =>
        /\ outcome.kind = "return"
        /\ \A i \in LegalBindings : AttachedFor(i).kind /= "none"

\* C2: a register call leaves every (entity type, name) pair it binds
\* pointing at its own provider (the last registration wins) and leaves every
\* other access point as it was.
C2_LastWins ==
    [][op'.fn = "register_provider" =>
        \A p \in Pairs :
            IF /\ p[2] = op'.prov.qry_name
               /\ \E i \in 1..Len(op'.prov.qry_entities) :
                     op'.prov.qry_entities[i].entity = p[1]
            THEN attached'[p].func = op'.prov.qry_func
            ELSE attached'[p] = attached[p]]_vars

\* C3: for a name of the vocabulary, _entity_class returns the handle of
\* exactly that entity type and the close-match computation is not reached.
C3_LegalNameResolves ==
    (op.fn = "_entity_class" /\ op.name \in DirEntities) =>
        /\ outcome.kind = "return"
        /\ outcome.value = EntitiesModule[op.name]
        /\ ~outcome.fuzzy

C3_Witness ==
    /\ op.fn = "_entity_class"
    /\ op.name = "HostLogonSession"
    /\ outcome.kind = "return"
    /\ outcome.value = "HostLogonSession"

\* C4: for a name outside the vocabulary, _entity_class raises NameError
\* carrying the name and the suggestion message, and no other error.
C4_UnknownNameIsNameError ==
    (op.fn = "_entity_class" /\ op.name \notin DirEntities) =>
        /\ outcome.kind = "raise"
        /\ outcome.exc = "NameError"
        /\ outcome.arg = op.name
        /\ outcome.mssg.shape /= "none"

\* C5: every failing resolution carries a message whose shape is decided by
\* the number of close candidates: none - the whole vocabulary, each name
\* once; one - that one; two or more - all of them.
C5_MessageShape ==
    (op.fn = "_entity_class" /\ outcome.kind = "raise") =>
        LET closest == CloseMatches(op.name)
        IN  /\ Len(closest) = 0 =>
                /\ outcome.mssg.shape = "valid_arguments"
                /\ outcome.mssg.names = LegalEntities
            /\ Len(closest) = 1 =>
                /\ outcome.mssg.shape = "closest_match"
                /\ outcome.mssg.names = closest
            /\ Len(closest) >= 2 =>
                /\ outcome.mssg.shape = "closest_matches"
                /\ outcome.mssg.names = closest

\* C6: invoking the adapter built for a batch-incapable registration with a
\* sequence of n values calls the provider once per value, in input order,
\* and returns the per-call tables concatenated in call order.
C6_BatchAdapterOrder ==
    (op.fn = "invoke" /\ op.name = "partial" /\ op.values.type = "list"
        /\ op.failOn = {}) =>
        /\ calls = [i \in 1..Len(op.values.items) |-> Call(op.func, op.values.items[i], op.opts)]
        /\ outcome.kind = "return"
        /\ outcome.table = [i \in 1..Len(op.values.items) |-> Row(op.func, op.values.items[i])]

\* C7: invoking the adapter with a bare scalar v (str, int or float) calls
\* the provider exactly once, with v itself, and gives the result of
\* invoking it with the one-element sequence [v].
C7_ScalarNormalization ==
    (AdapterCall /\ op.values.type \in {"str", "int", "float"} /\ op.failOn = {}) =>
        /\ calls = <<Call(op.func, op.values, op.opts)>>
        /\ outcome = ReturnTable(<<Row(op.func, op.values)>>)

\* C8: a batch-capable registration attaches the provider's own callable to
\* every legal entity type it binds, and invoking it with a sequence calls
\* the provider once with the whole sequence and returns its table.
C8_BatchCapableUnwrapped ==
    /\ (Registered /\ op.prov.multi_query_supported) =>
            \A i \in LegalBindings :
                /\ AttachedFor(i).kind = "raw"
                /\ AttachedFor(i).func = op.prov.qry_func
    /\ (op.fn = "invoke" /\ op.name = "raw") =>
            /\ calls = <<Call(op.func, op.values, op.opts)>>
            /\ outcome.kind = "return" => outcome.table = ProviderTable(op.func, op.values)

\* C9: the callable attached for a binding passes the provider the keyword
\* arguments that binding declares: the value under the keyword name, or
\* the fixed keyword arguments alone.
C9_BindingDecidesKwargs ==
    Registered =>
        \A i \in LegalBindings : AttachedFor(i).binding = op.prov.qry_entities[i].binding

\* C10: a provider error propagates unchanged and is never retried: when the
\* provider raises on a call, that call is the last one, the error reaches
\* the caller and no table is returned; in the batch adapter the calls made
\* are exactly the values up to and including the failing one, in order.
C10_ProviderErrorPropagates ==
    /\ \A k \in 1..Len(calls) :
            Fails(calls[k].arg, op.failOn) =>
                /\ Len(calls) = k
                /\ outcome.kind = "raise"
                /\ outcome.exc = "ProviderError"
                /\ outcome.errval = calls[k].arg
                /\ outcome.table = <<>>
    /\ (AdapterCall /\ outcome.exc /= "TypeError") =>
            /\ Len(calls) <= Len(Items)
            /\ \A i \in 1..Len(calls) : calls[i] = Call(op.func, Items[i], op.opts)
            /\ (\E i \in 1..Len(Items) : Items[i] \in op.failOn) =>
                    /\ outcome.exc = "ProviderError"
                    /\ calls /= <<>>
                    /\ calls[Len(calls)].arg \in op.failOn

C10_Witness ==
    /\ op.fn = "_iterate_prov_query"
    /\ Len(Items) = 3
    /\ Len(calls) = 2
    /\ outcome.kind = "raise"
    /\ outcome.exc = "ProviderError"
    /\ outcome.errval = Items[2]

====
